---- MODULE Spec2Model ----
(***************************************************************************)
(* Model of the client-side request pipeline of L3ARN-LABS:                *)
(*   frontend/src/utils/security.ts     SecurityManager (rate limiter,     *)
(*                                      secure storage)                    *)
(*   frontend/src/services/secureApi.ts SecureApiClient (request, retry,   *)
(*                                      error mapping, response cache)     *)
(* Time is the value of Date.now() in milliseconds.                        *)
(***************************************************************************)
EXTENDS Integers, Sequences, FiniteSets, TLC

VARIABLES
    now,            \* Date.now(), epoch milliseconds
    requestCounts,  \* SecurityManager.requestCounts: endpoint -> {count, resetTime}
    requestCache,   \* SecureApiClient.requestCache: endpoint -> {data, expires}
    localStorage,   \* window.localStorage: key -> raw record
    proc,           \* one record per caller of request(): position and locals
    callsLeft,      \* request() calls the callers may still start
    limit,          \* the ceiling a direct caller of the rate limiter passes
    rl,             \* record of the latest direct isRequestAllowed call
    st,             \* record of the latest direct secureStorage call
    res             \* record of the latest headers built, file uploaded, text sanitized

vars == <<now, requestCounts, requestCache, localStorage, proc, callsLeft, limit, rl, st,
          res>>

(***************************************************************************)
(* Bounds of the model.                                                    *)
(***************************************************************************)
MaxCeiling == 3
MaxCalls == 2
MaxLen == 2
MaxParts == 3

(***************************************************************************)
(* Program constants.                                                      *)
(***************************************************************************)
DefaultMaxRequests == 100
WindowMs == 60000
CacheTtlMs == 5 * 60 * 1000
DefaultRetries == 3
MaxAgeMs == 24 * 60 * 60 * 1000

Endpoints == {"/courses", "/lessons"}
Ceilings == 1..MaxCeiling
Procs == {1, 2}
Solo == {1}
Methods == {"GET", "POST"}
RetryChoices == {0, 1, DefaultRetries}
Statuses == {200, 201, 400, 401, 429, 500}
RetryAfterHeaders == {"absent", "2"}
ErrorBodies == {"object_with_code", "object", "null", "not_json"}
RetryStatuses == {200, 400, 404, 429, 500, 503}
RetryAfterValues == {"absent", "0", "2"}

(***************************************************************************)
(* JavaScript values are written as their JSON text.                       *)
(***************************************************************************)
JsNull == "null"
Payloads == {"{id:1}", "{id:2}", "0"}
InvalidJson == "<invalid json>"
Truthy(v) == v \notin {"null", "0", "false", "''"}

(***************************************************************************)
(* Map helpers: a JavaScript Map is a function whose domain is its keys.   *)
(***************************************************************************)
MapSet(m, k, v) == (k :> v) @@ m
MapDelete(m, k) == [x \in (DOMAIN m) \ {k} |-> m[x]]
EmptyMap == [x \in {} |-> 0]

(***************************************************************************)
(* Faulty variants of isRequestAllowed: one admits a call when the count   *)
(* already equals the ceiling, one restarts the window on a denial.        *)
(***************************************************************************)
isRequestAllowedOffByOne(counts, endpoint, maxRequests, windowMs, t) ==
    IF endpoint \notin DOMAIN counts \/ t > counts[endpoint].resetTime
    THEN [allowed |-> TRUE,
          counts  |-> MapSet(counts, endpoint, [count |-> 1, resetTime |-> t + windowMs])]
    ELSE IF counts[endpoint].count > maxRequests
         THEN [allowed |-> FALSE, counts |-> counts]
         ELSE [allowed |-> TRUE,
               counts  |-> MapSet(counts, endpoint,
                              [count     |-> counts[endpoint].count + 1,
                               resetTime |-> counts[endpoint].resetTime])]

isRequestAllowedExtending(counts, endpoint, maxRequests, windowMs, t) ==
    IF endpoint \notin DOMAIN counts \/ t > counts[endpoint].resetTime
    THEN [allowed |-> TRUE,
          counts  |-> MapSet(counts, endpoint, [count |-> 1, resetTime |-> t + windowMs])]
    ELSE IF counts[endpoint].count >= maxRequests
         THEN [allowed |-> FALSE,
               counts  |-> MapSet(counts, endpoint,
                              [count     |-> counts[endpoint].count,
                               resetTime |-> t + windowMs])]
         ELSE [allowed |-> TRUE,
               counts  |-> MapSet(counts, endpoint,
                              [count     |-> counts[endpoint].count + 1,
                               resetTime |-> counts[endpoint].resetTime])]

(***************************************************************************)
(* SecurityManager.isRequestAllowed(endpoint, maxRequests, windowMs) at    *)
(* time t on the map counts: the returned flag and the map afterwards.     *)
(***************************************************************************)
isRequestAllowed(counts, endpoint, maxRequests, windowMs, t) ==
    IF endpoint \notin DOMAIN counts \/ t > counts[endpoint].resetTime
    THEN [allowed |-> TRUE,
          counts  |-> MapSet(counts, endpoint, [count |-> 1, resetTime |-> t + windowMs])]
    ELSE IF counts[endpoint].count >= maxRequests
         THEN [allowed |-> FALSE, counts |-> counts]
         ELSE [allowed |-> TRUE,
               counts  |-> MapSet(counts, endpoint,
                              [count     |-> counts[endpoint].count + 1,
                               resetTime |-> counts[endpoint].resetTime])]

(***************************************************************************)
(* SecurityManager.generateChecksum: the 32-bit rolling hash of a string,  *)
(* given as its sequence of UTF-16 code units.  The running hash is kept   *)
(* as two 16-bit halves <<high, low>> so that ((hash << 5) - hash) + char, *)
(* truncated to 32 bits by `hash & hash`, is computed without leaving the  *)
(* 32-bit range.  toString(36) is a one to one rendering of the signed     *)
(* result, which the code only compares for equality.                      *)
(***************************************************************************)
HashStep(hl, char) ==
    LET low  == (hl[2] * 32 - hl[2]) + char
        high == (hl[1] * 32 - hl[1]) + (low \div 65536)
    IN  <<high % 65536, low % 65536>>

ToInt32(hl) ==
    IF hl[1] >= 32768 THEN (hl[1] - 65536) * 65536 + hl[2] ELSE hl[1] * 65536 + hl[2]

RECURSIVE HashFrom(_, _, _)
HashFrom(hl, data, i) ==
    IF i > Len(data) THEN hl ELSE HashFrom(HashStep(hl, data[i]), data, i + 1)

generateChecksum(data) == ToInt32(HashFrom(<<0, 0>>, data, 1))

(***************************************************************************)
(* JSON.stringify and JSON.parse of a string value, on code units: the     *)
(* text between the quotes of the JSON string literal.  stringify escapes  *)
(* the quote (34), the backslash (92) and the line feed (10, as \n); parse *)
(* undoes the escapes and fails on a bare quote, a bare control character, *)
(* an unknown escape or a backslash at the end.                            *)
(***************************************************************************)
Quote == 34
Backslash == 92
LetterN == 110
LineFeed == 10

RECURSIVE JsonQuoteQuotesOnly(_)
JsonQuoteQuotesOnly(value) ==
    IF value = <<>> THEN <<>>
    ELSE (IF Head(value) = Quote THEN <<Backslash, Quote>> ELSE <<Head(value)>>)
             \o JsonQuoteQuotesOnly(Tail(value))

RECURSIVE JsonQuote(_)
JsonQuote(value) ==
    IF value = <<>> THEN <<>>
    ELSE (CASE Head(value) = Quote     -> <<Backslash, Quote>>
            [] Head(value) = Backslash -> <<Backslash, Backslash>>
            [] Head(value) = LineFeed  -> <<Backslash, LetterN>>
            [] OTHER                   -> <<Head(value)>>)
             \o JsonQuote(Tail(value))

RECURSIVE JsonUnquoteFrom(_, _, _)
JsonUnquoteFrom(text, i, acc) ==
    IF i > Len(text) THEN [ok |-> TRUE, value |-> acc]
    ELSE IF text[i] = Quote \/ text[i] < 32 THEN [ok |-> FALSE, value |-> <<>>]
    ELSE IF text[i] # Backslash THEN JsonUnquoteFrom(text, i + 1, Append(acc, text[i]))
    ELSE IF i = Len(text) THEN [ok |-> FALSE, value |-> <<>>]
    ELSE CASE text[i + 1] = Quote     -> JsonUnquoteFrom(text, i + 2, Append(acc, Quote))
           [] text[i + 1] = Backslash -> JsonUnquoteFrom(text, i + 2, Append(acc, Backslash))
           [] text[i + 1] = LetterN   -> JsonUnquoteFrom(text, i + 2, Append(acc, LineFeed))
           [] OTHER                   -> [ok |-> FALSE, value |-> <<>>]

JsonUnquote(text) == JsonUnquoteFrom(text, 1, <<>>)

(***************************************************************************)
(* SecurityManager.secureStorage over localStorage.  A raw record is the   *)
(* JSON text of {value, timestamp, checksum}, kept field by field: value   *)
(* holds the string literal as stringify wrote it.  localStorage is taken  *)
(* to accept the write.  The field json tells what JSON.parse makes of the *)
(* raw text: an object, the value null, or nothing (the text is garbage).  *)
(***************************************************************************)
StorageKeys == {"auth_token", "user_data"}
TokenValue == <<116, 107>>
UserValue == <<117>>

setItem(storage, key, value, t) ==
    MapSet(storage, key,
           [json |-> "object", value |-> JsonQuote(value), timestamp |-> t,
            checksum |-> generateChecksum(value)])

removeItem(storage, key) == MapDelete(storage, key)

(* Faulty variants of getItem: one takes a record of exactly 24 hours for  *)
(* stale, one deletes a record it cannot parse.                            *)
getItemAgeInclusive(storage, key, t) ==
    IF key \notin DOMAIN storage
    THEN [found |-> FALSE, value |-> <<>>, storage |-> storage]
    ELSE LET data == JsonUnquote(storage[key].value)
         IN  IF storage[key].json # "object" \/ ~data.ok
             THEN [found |-> FALSE, value |-> <<>>, storage |-> storage]
             ELSE IF generateChecksum(data.value) # storage[key].checksum
             THEN [found |-> FALSE, value |-> <<>>, storage |-> removeItem(storage, key)]
             ELSE IF t - storage[key].timestamp >= MaxAgeMs
             THEN [found |-> FALSE, value |-> <<>>, storage |-> removeItem(storage, key)]
             ELSE [found |-> TRUE, value |-> data.value, storage |-> storage]

getItemRemovingCorrupt(storage, key, t) ==
    IF key \notin DOMAIN storage
    THEN [found |-> FALSE, value |-> <<>>, storage |-> storage]
    ELSE LET data == JsonUnquote(storage[key].value)
         IN  IF storage[key].json # "object" \/ ~data.ok
             THEN [found |-> FALSE, value |-> <<>>, storage |-> removeItem(storage, key)]
             ELSE IF generateChecksum(data.value) # storage[key].checksum
             THEN [found |-> FALSE, value |-> <<>>, storage |-> removeItem(storage, key)]
             ELSE IF t - storage[key].timestamp > MaxAgeMs
             THEN [found |-> FALSE, value |-> <<>>, storage |-> removeItem(storage, key)]
             ELSE [found |-> TRUE, value |-> data.value, storage |-> storage]

(* getItem: JSON.parse throwing on garbage and data.value throwing on null *)
(* both end in the catch block, which returns null and removes nothing.    *)
getItem(storage, key, t) ==
    IF key \notin DOMAIN storage
    THEN [found |-> FALSE, value |-> <<>>, storage |-> storage]
    ELSE LET data == JsonUnquote(storage[key].value)
         IN  IF storage[key].json # "object" \/ ~data.ok
             THEN [found |-> FALSE, value |-> <<>>, storage |-> storage]
             ELSE IF generateChecksum(data.value) # storage[key].checksum
             THEN [found |-> FALSE, value |-> <<>>, storage |-> removeItem(storage, key)]
             ELSE IF t - storage[key].timestamp > MaxAgeMs
             THEN [found |-> FALSE, value |-> <<>>, storage |-> removeItem(storage, key)]
             ELSE [found |-> TRUE, value |-> data.value, storage |-> storage]

(***************************************************************************)
(* SecureApiClient.handleAuthenticationError: both credentials removed.    *)
(***************************************************************************)
handleAuthenticationError(storage) ==
    removeItem(removeItem(storage, "auth_token"), "user_data")

(***************************************************************************)
(* The response cache.  An entry also records, for the analysis, the call  *)
(* that wrote it.                                                          *)
(***************************************************************************)
getFromCache(cache, key, t) ==
    IF key \in DOMAIN cache /\ cache[key].expires > t
    THEN [data |-> cache[key].data, cache |-> cache]
    ELSE [data |-> JsNull, cache |-> MapDelete(cache, key)]

setCache(cache, key, data, ttl, t, writer) ==
    MapSet(cache, key, [data |-> data, expires |-> t + ttl, writer |-> writer])

(***************************************************************************)
(* Thrown values.                                                          *)
(***************************************************************************)
Undefined == [class |-> "undefined", name |-> "", fetch |-> FALSE, status |-> 0, code |-> ""]
FetchTypeError == [class |-> "TypeError", name |-> "TypeError", fetch |-> TRUE,
                   status |-> 0, code |-> ""]
PlainTypeError == [class |-> "TypeError", name |-> "TypeError", fetch |-> FALSE,
                   status |-> 0, code |-> ""]
AbortError == [class |-> "DOMException", name |-> "AbortError", fetch |-> FALSE,
               status |-> 0, code |-> ""]
ApiError(status, code) == [class |-> "ApiError", name |-> "ApiError", fetch |-> FALSE,
                           status |-> status, code |-> code]
TransportErrors == {FetchTypeError, PlainTypeError}

(***************************************************************************)
(* SecureApiClient.getErrorCodeFromStatus.                                 *)
(***************************************************************************)
getErrorCodeFromStatus(status) ==
    CASE status = 400 -> "BAD_REQUEST"
      [] status = 401 -> "UNAUTHORIZED"
      [] status = 403 -> "FORBIDDEN"
      [] status = 404 -> "NOT_FOUND"
      [] status = 409 -> "CONFLICT"
      [] status = 422 -> "VALIDATION_ERROR"
      [] status = 429 -> "RATE_LIMITED"
      [] status = 500 -> "INTERNAL_ERROR"
      [] status = 502 -> "BAD_GATEWAY"
      [] status = 503 -> "SERVICE_UNAVAILABLE"
      [] status = 504 -> "GATEWAY_TIMEOUT"
      [] OTHER -> "UNKNOWN_ERROR"

(* Faulty variant of RequestCatch: an AbortError is not told apart from    *)
(* an unexpected error.                                                    *)
RequestCatchNoAbort(error) ==
    IF error.class = "ApiError" THEN error
    ELSE IF error.class = "TypeError" /\ error.fetch THEN ApiError(0, "NETWORK_ERROR")
    ELSE IF error.class = "undefined" THEN PlainTypeError
    ELSE ApiError(500, "UNKNOWN_ERROR")

(***************************************************************************)
(* The catch block of request(): the value the call rejects with, given    *)
(* the value caught.  Reading .name of undefined throws a TypeError out of *)
(* the catch block.                                                        *)
(***************************************************************************)
RequestCatch(error) ==
    IF error.class = "ApiError" THEN error
    ELSE IF error.class = "TypeError" /\ error.fetch THEN ApiError(0, "NETWORK_ERROR")
    ELSE IF error.class = "undefined" THEN PlainTypeError
    ELSE IF error.name = "AbortError" THEN ApiError(408, "TIMEOUT")
    ELSE ApiError(500, "UNKNOWN_ERROR")

(***************************************************************************)
(* Backoff delays of executeRequestWithRetry, in milliseconds.             *)
(***************************************************************************)
(* Faulty variants: a backoff that grows linearly, and a 429 branch that    *)
(* does not look at the Retry-After header.                                *)
BackoffLinear(attempt) == (attempt + 1) * 1000
ParseInt(s) == CASE s = "2" -> 2 [] s = "0" -> 0 [] OTHER -> 0
BackoffMs(attempt) == (2 ^ attempt) * 1000
RetryAfterIgnored(retryAfter, attempt) == BackoffMs(attempt)
RetryAfterMs(retryAfter, attempt) ==
    IF retryAfter # "absent" THEN ParseInt(retryAfter) * 1000 ELSE BackoffMs(attempt)

(***************************************************************************)
(* The record of one caller of request().                                  *)
(*   pc        idle | fetch | delay | errbody | parse | done               *)
(*   attempt   the loop variable of executeRequestWithRetry                *)
(*   timer     the timeout of line 105 is pending                          *)
(*   aborted   abortController.signal.aborted                              *)
(*   status    status of the response the retry loop returned (0: none)    *)
(*   admitted, attempts, delays, fromCache, kinds: what the call has done  *)
(*   so far; kinds is the set of kinds of answer its attempts received     *)
(*   entry     the cache entry of the endpoint when the call was made:     *)
(*             whether it was less than the time to live old, and its data *)
(*   answer    the latest response fetch resolved with: its status and the *)
(*             Retry-After header as line 193 read it                      *)
(*   file      the file given to uploadFile, when the call is an upload    *)
(*   errBody   what response.json() gave handleErrorResponse (line 255)    *)
(***************************************************************************)
NoFile == [size |-> 0, name |-> <<>>]
NoAnswer == [status |-> 0, retryAfter |-> "absent"]
Answer(s, h) == [status |-> s, retryAfter |-> IF s = 429 THEN h ELSE "absent"]
NoOutcome == [kind |-> "none", error |-> Undefined, status |-> 0, data |-> JsNull]
Resolved(data, status) ==
    [kind |-> "resolved", error |-> Undefined, status |-> status, data |-> data]
Rejected(error) ==
    [kind |-> "rejected", error |-> error, status |-> error.status, data |-> JsNull]

IdleProc ==
    [pc |-> "idle", endpoint |-> "", method |-> "", cacheable |-> FALSE, retries |-> 0,
     attempt |-> 0, timer |-> FALSE, aborted |-> FALSE, lastError |-> Undefined,
     status |-> 0, bearer |-> FALSE, admitted |-> FALSE, attempts |-> 0,
     delays |-> <<>>, fromCache |-> FALSE, kinds |-> {},
     entry |-> [fresh |-> FALSE, data |-> JsNull], answer |-> NoAnswer,
     file |-> NoFile, errBody |-> "none", outcome |-> NoOutcome]

(* The catch block of request() (lines 137-168) reached with a thrown value. *)
Reject(pr, error) ==
    [pr EXCEPT !.pc = "done", !.timer = FALSE, !.outcome = Rejected(RequestCatch(error))]

(* The cache entry of endpoint e as a call made at time t finds it. *)
EntrySeen(cache, e, t) ==
    IF e \in DOMAIN cache
    THEN [fresh |-> t - cache[e].writer.time < CacheTtlMs, data |-> cache[e].data]
    ELSE [fresh |-> FALSE, data |-> JsNull]

(* Faulty variant of RateLimitReject: the refusal is ignored and the call   *)
(* goes on to the network.                                                 *)
RateLimitIgnored(call) ==
    [call EXCEPT !.pc = "fetch", !.timer = TRUE, !.attempts = 1]

(* Lines 56-62: the call refused by the rate limiter, thrown before the try. *)
RateLimitReject(call) ==
    [call EXCEPT !.pc = "done", !.outcome = Rejected(ApiError(429, "RATE_LIMITED"))]

(* Lines 64-75: the cached value is served when it is truthy. *)
CacheHit(method, cacheable, cached) == method = "GET" /\ cacheable /\ Truthy(cached)

(* Lines 77-114 and 180-187: headers, timer, first fetch of the retry loop. *)
FirstFetch(call, token) ==
    [call EXCEPT !.pc = "fetch", !.timer = TRUE, !.attempt = 0, !.attempts = 1,
                 !.bearer = token.found /\ token.value # <<>>]

(* request() from its entry to its first await or to its synchronous end. *)
(* Faulty variant of requestEntry: the cache is looked up before the rate   *)
(* limiter is asked, and a call served from the cache is not counted.      *)
requestEntryCacheFirst(counts, cache, storage, e, m, c, r, t) ==
    LET gate == isRequestAllowed(counts, e, DefaultMaxRequests, WindowMs, t)
        look == getFromCache(cache, e, t)
        token == getItem(storage, "auth_token", t)
        call == [IdleProc EXCEPT !.endpoint = e, !.method = m, !.cacheable = c,
                                 !.retries = r, !.admitted = gate.allowed,
                                 !.entry = EntrySeen(cache, e, t)]
    IN  IF CacheHit(m, c, look.data)
        THEN [proc |-> [call EXCEPT !.pc = "done", !.fromCache = TRUE, !.admitted = TRUE,
                                    !.outcome = Resolved(look.data, 200)],
              counts |-> counts, cache |-> look.cache, storage |-> storage]
        ELSE IF ~gate.allowed
        THEN [proc |-> RateLimitReject(call), counts |-> gate.counts,
              cache |-> IF m = "GET" /\ c THEN look.cache ELSE cache, storage |-> storage]
        ELSE [proc |-> FirstFetch(call, token), counts |-> gate.counts,
              cache |-> IF m = "GET" /\ c THEN look.cache ELSE cache,
              storage |-> token.storage]

requestEntry(counts, cache, storage, e, m, c, r, t) ==
    LET gate == isRequestAllowed(counts, e, DefaultMaxRequests, WindowMs, t)
        look == getFromCache(cache, e, t)
        token == getItem(storage, "auth_token", t)
        call == [IdleProc EXCEPT !.endpoint = e, !.method = m, !.cacheable = c,
                                 !.retries = r, !.admitted = gate.allowed,
                                 !.entry = EntrySeen(cache, e, t)]
    IN  IF ~gate.allowed
        THEN [proc |-> RateLimitReject(call), counts |-> gate.counts,
              cache |-> cache, storage |-> storage]
        ELSE IF CacheHit(m, c, look.data)
        THEN [proc |-> [call EXCEPT !.pc = "done", !.fromCache = TRUE,
                                    !.outcome = Resolved(look.data, 200)],
              counts |-> gate.counts, cache |-> look.cache, storage |-> storage]
        ELSE [proc |-> FirstFetch(call, token), counts |-> gate.counts,
              cache |-> IF m = "GET" /\ c THEN look.cache ELSE cache,
              storage |-> token.storage]

(***************************************************************************)
(* SecurityManager.validateFile.  A file is its size in bytes and its name *)
(* as file.name.split('.') gives it; an extension is written without its   *)
(* leading dot.                                                            *)
(***************************************************************************)
MaxFileSize == 10 * 1024 * 1024
AllowedFileTypes == {"jpg", "jpeg", "png", "gif", "pdf", "txt", "md", "py", "js", "ts"}
ToLowerCase(w) ==
    CASE w = "PNG" -> "png" [] w = "Exe" -> "exe" [] w = "README" -> "readme" [] OTHER -> w
Extension(name) == ToLowerCase(name[Len(name)])

validateFile(file) ==
    IF file.size > MaxFileSize THEN [valid |-> FALSE, error |-> "size"]
    ELSE IF Extension(file.name) \notin AllowedFileTypes
    THEN [valid |-> FALSE, error |-> "type"]
    ELSE [valid |-> TRUE, error |-> ""]

(* Lines 417-421: the upload refused, thrown before anything else is done. *)
InvalidFileReject(e, file) ==
    [IdleProc EXCEPT !.endpoint = e, !.method = "POST", !.file = file, !.pc = "done",
                     !.outcome = Rejected(ApiError(400, "INVALID_FILE"))]

(* Faulty variant of uploadEntry: the file is looked at only after         *)
(* request() has passed the rate limiter.                                  *)
uploadEntryGateFirst(counts, cache, storage, e, file, t) ==
    LET go == requestEntry(counts, cache, storage, e, "POST", FALSE, DefaultRetries, t)
    IN  IF ~validateFile(file).valid
        THEN [go EXCEPT !.proc = InvalidFileReject(e, file)]
        ELSE [go EXCEPT !.proc.file = file]

(* uploadFile() from its entry to its first await or its synchronous end:  *)
(* the validation, then request(endpoint, {method: 'POST', body: formData})*)
(* with the default number of retries.                                     *)
uploadEntry(counts, cache, storage, e, file, t) ==
    IF ~validateFile(file).valid
    THEN [proc |-> InvalidFileReject(e, file), counts |-> counts, cache |-> cache,
          storage |-> storage]
    ELSE LET go == requestEntry(counts, cache, storage, e, "POST", FALSE, DefaultRetries, t)
         IN  [go EXCEPT !.proc.file = file]

(* await this.delay(ms) inside the retry loop. *)
Delay(pr, ms) == [pr EXCEPT !.pc = "delay", !.delays = Append(@, ms)]

(* The retry loop returns a response: lines 116-123 up to the body read. *)
ReturnResponse(pr, s) ==
    [pr EXCEPT !.status = s, !.timer = FALSE,
               !.pc = IF s >= 200 /\ s <= 299 THEN "parse" ELSE "errbody"]

(* Faulty variant of LoopExit: the loop ends and nothing is thrown, the     *)
(* promise of the call is left pending.                                    *)
LoopExitPending(pr) == [pr EXCEPT !.attempt = pr.retries + 1, !.pc = "pending"]

(* The for loop ends without a return: line 218 throws lastError. *)
LoopExit(pr) == Reject([pr EXCEPT !.attempt = pr.retries + 1], pr.lastError)

(* The kind of an answer, for the record of what a call received. *)
KindOf(s) ==
    IF s = 429 THEN "429" ELSE IF s >= 500 THEN "5xx" ELSE IF s >= 400 THEN "4xx" ELSE "ok"
Received(pr, kind) == [pr EXCEPT !.kinds = @ \cup {kind}]

(* Lines 189-207: fetch resolved with status s and Retry-After header h. *)
OnResponse(pr, s, h) ==
    LET q == [Received(pr, KindOf(s)) EXCEPT !.answer = Answer(s, h)]
    IN  IF s >= 400 /\ s < 500
        THEN IF s = 429 THEN Delay(q, RetryAfterMs(h, pr.attempt))
             ELSE ReturnResponse(q, s)
        ELSE IF s >= 500 /\ pr.attempt < pr.retries
             THEN Delay(q, BackoffMs(pr.attempt))
             ELSE ReturnResponse(q, s)

(* Lines 209-215: fetch rejected with err. *)
OnFetchError(pr, err) ==
    LET q == Received([pr EXCEPT !.lastError = err, !.answer = NoAnswer],
                      IF err = AbortError THEN "abort" ELSE "exception")
    IN  IF pr.attempt < pr.retries THEN Delay(q, BackoffMs(pr.attempt)) ELSE LoopExit(q)

(* Faulty variant of NextAttempt: the loop test lets one attempt too many   *)
(* through.                                                                *)
NextAttemptOneMore(pr) ==
    IF pr.attempt <= pr.retries
    THEN [pr EXCEPT !.pc = "fetch", !.attempt = @ + 1, !.attempts = @ + 1]
    ELSE LoopExit(pr)

(* continue: attempt++ and the loop test of line 180. *)
(* Faulty variant of NextAttempt: every attempt gets a signal and a timer   *)
(* of its own.                                                             *)
NextAttemptFreshSignal(pr) ==
    IF pr.attempt + 1 <= pr.retries
    THEN [pr EXCEPT !.pc = "fetch", !.attempt = @ + 1, !.attempts = @ + 1,
                    !.aborted = FALSE, !.timer = TRUE]
    ELSE LoopExit(pr)

NextAttempt(pr) ==
    IF pr.attempt + 1 <= pr.retries
    THEN [pr EXCEPT !.pc = "fetch", !.attempt = @ + 1, !.attempts = @ + 1]
    ELSE LoopExit(pr)

(* handleErrorResponse (lines 251-278) once the body has been read: the    *)
(* value thrown and whether the credentials are cleared.  A JSON body of   *)
(* null makes errorData.message throw before the ApiError is built.        *)
handleErrorResponse(status, body) ==
    IF body = "null"
    THEN [thrown |-> PlainTypeError, clear |-> FALSE]
    ELSE [thrown |-> ApiError(status, IF body = "object_with_code" THEN "SERVER_CODE"
                                       ELSE getErrorCodeFromStatus(status)),
          clear  |-> status = 401]

(* Faulty variant of CachePopulate: any successful status is cached. *)
CachePopulateAnyStatus(cache, pr, data, t) ==
    IF pr.method = "GET" /\ pr.cacheable
    THEN setCache(cache, pr.endpoint, data, CacheTtlMs, t,
                  [method |-> pr.method, cacheable |-> pr.cacheable,
                   status |-> pr.status, time |-> t])
    ELSE cache

(* Faulty variant of CachePopulate: an entry already in the cache is kept, *)
(* as it would be if overlapping calls were coalesced into the first one.  *)
CachePopulateFirstOnly(cache, pr, data, t) ==
    IF pr.method = "GET" /\ pr.cacheable /\ pr.status = 200 /\ pr.endpoint \notin DOMAIN cache
    THEN setCache(cache, pr.endpoint, data, CacheTtlMs, t,
                  [method |-> pr.method, cacheable |-> pr.cacheable,
                   status |-> pr.status, time |-> t])
    ELSE cache

(* Lines 125-128: the cache after a parsed response. *)
(* Faulty variant of CachePopulate: a 200 answer of any method is cached. *)
CachePopulateAnyMethod(cache, pr, data, t) ==
    IF pr.cacheable /\ pr.status = 200
    THEN setCache(cache, pr.endpoint, data, CacheTtlMs, t,
                  [method |-> pr.method, cacheable |-> pr.cacheable,
                   status |-> pr.status, time |-> t])
    ELSE cache

CachePopulate(cache, pr, data, t) ==
    IF pr.method = "GET" /\ pr.cacheable /\ pr.status = 200
    THEN setCache(cache, pr.endpoint, data, CacheTtlMs, t,
                  [method |-> pr.method, cacheable |-> pr.cacheable,
                   status |-> pr.status, time |-> t])
    ELSE cache

(***************************************************************************)
(* The passage of time.  The code compares Date.now() only with deadlines  *)
(* it stored earlier (a window's reset time, a cache entry's expiry), so   *)
(* the clock visits the instants just before, at and just after the        *)
(* deadlines of what was stored at time 0.                                 *)
(***************************************************************************)
Around(d) == {d - 1, d, d + 1}
Timeline == Around(WindowMs) \cup Around(CacheTtlMs)

Tick ==
    /\ \E t \in Timeline :
          /\ t > now
          /\ now' = t
    /\ UNCHANGED <<requestCounts, requestCache, localStorage, proc, callsLeft, limit, rl, st, res>>

(***************************************************************************)
(* The headers of a call (lines 79-101): getSecureHeaders() overlaid with  *)
(* the caller's headers by object spread, Authorization set when           *)
(* getAuthToken() is truthy, Content-Type deleted for a FormData body.     *)
(* The gate always holds a CSRF token: its constructor takes the one of    *)
(* the page or generates one.                                              *)
(***************************************************************************)
CsrfToken == "csrf-token-of-the-gate"
BodyKinds == {"none", "json", "formdata"}
CallerHeaders ==
    {EmptyMap, "X-Trace" :> "1", "Content-Type" :> "text/plain",
     "X-Requested-With" :> "fetch", "X-CSRF-Token" :> "forged",
     "Authorization" :> "Basic dTpw"}

getSecureHeaders ==
    ("Content-Type" :> "application/json") @@ ("X-Requested-With" :> "XMLHttpRequest")
        @@ ("X-CSRF-Token" :> CsrfToken)

Bearer(token) == IF token = TokenValue THEN "Bearer tk" ELSE "Bearer"

requestHeaders(caller, token, body) ==
    LET merged == caller @@ getSecureHeaders
        authed == IF token.found /\ token.value # <<>>
                  THEN ("Authorization" :> Bearer(token.value)) @@ merged
                  ELSE merged
    IN  IF body = "formdata" THEN MapDelete(authed, "Content-Type") ELSE authed

NoResult == [op |-> "none"]

(***************************************************************************)
(* request(): one action per stretch of code between two awaits.           *)
(***************************************************************************)
(* request(endpoint, {method, headers, body, retries: 0}): as StartRequest, *)
(* keeping the headers the call hands to fetch.                            *)
StartRequestWithHeaders(p, e, m, hs, b) ==
    /\ proc[p].pc = "idle"
    /\ callsLeft > 0
    /\ callsLeft' = callsLeft - 1
    /\ LET go == requestEntry(requestCounts, requestCache, localStorage, e, m, FALSE, 0, now)
           token == getItem(localStorage, "auth_token", now)
       IN  /\ proc' = [proc EXCEPT ![p] = go.proc]
           /\ requestCounts' = go.counts
           /\ requestCache' = go.cache
           /\ localStorage' = go.storage
           /\ res' = IF go.proc.pc = "fetch"
                     THEN [op |-> "headers", caller |-> hs, body |-> b,
                           token |-> token.found, headers |-> requestHeaders(hs, token, b)]
                     ELSE NoResult
    /\ UNCHANGED <<now, limit, rl, st>>

StartRequest(p, e, m, c, r) ==
    /\ proc[p].pc = "idle"
    /\ callsLeft > 0
    /\ callsLeft' = callsLeft - 1
    /\ LET go == requestEntry(requestCounts, requestCache, localStorage, e, m, c, r, now)
       IN  /\ proc' = [proc EXCEPT ![p] = go.proc]
           /\ requestCounts' = go.counts
           /\ requestCache' = go.cache
           /\ localStorage' = go.storage
    /\ UNCHANGED <<now, limit, rl, st, res>>

UploadFile(p, e, file) ==
    /\ proc[p].pc = "idle"
    /\ callsLeft > 0
    /\ callsLeft' = callsLeft - 1
    /\ LET go == uploadEntry(requestCounts, requestCache, localStorage, e, file, now)
       IN  /\ proc' = [proc EXCEPT ![p] = go.proc]
           /\ requestCounts' = go.counts
           /\ requestCache' = go.cache
           /\ localStorage' = go.storage
    /\ UNCHANGED <<now, limit, rl, st, res>>

(* clearCache(): this.requestCache.clear(). *)
ClearCache ==
    /\ requestCache' = EmptyMap
    /\ UNCHANGED <<now, requestCounts, localStorage, proc, callsLeft, limit, rl, st, res>>

FetchResponds(p, s, h) ==
    /\ proc[p].pc = "fetch"
    /\ ~proc[p].aborted
    /\ proc' = [proc EXCEPT ![p] = OnResponse(proc[p], s, h)]
    /\ UNCHANGED <<now, requestCounts, requestCache, localStorage, callsLeft, limit, rl, st, res>>

FetchFails(p, err) ==
    /\ proc[p].pc = "fetch"
    /\ IF proc[p].aborted THEN err = AbortError ELSE err \in TransportErrors
    /\ proc' = [proc EXCEPT ![p] = OnFetchError(proc[p], err)]
    /\ UNCHANGED <<now, requestCounts, requestCache, localStorage, callsLeft, limit, rl, st, res>>

DelayDone(p) ==
    /\ proc[p].pc = "delay"
    /\ proc' = [proc EXCEPT ![p] = NextAttempt(proc[p])]
    /\ UNCHANGED <<now, requestCounts, requestCache, localStorage, callsLeft, limit, rl, st, res>>

TimeoutFires(p) ==
    /\ proc[p].timer
    /\ proc' = [proc EXCEPT ![p].timer = FALSE, ![p].aborted = TRUE]
    /\ UNCHANGED <<now, requestCounts, requestCache, localStorage, callsLeft, limit, rl, st, res>>

ErrBodyRead(p, body) ==
    /\ proc[p].pc = "errbody"
    /\ LET h == handleErrorResponse(proc[p].status, body)
       IN  /\ proc' = [proc EXCEPT ![p] = [Reject(proc[p], h.thrown) EXCEPT !.errBody = body]]
           /\ localStorage' = IF h.clear THEN handleAuthenticationError(localStorage)
                              ELSE localStorage
    /\ UNCHANGED <<now, requestCounts, requestCache, callsLeft, limit, rl, st, res>>

ParseDone(p, result) ==
    /\ proc[p].pc = "parse"
    /\ IF result = InvalidJson
       THEN /\ proc' = [proc EXCEPT ![p] =
                           Reject(proc[p], ApiError(proc[p].status, "INVALID_JSON"))]
            /\ UNCHANGED requestCache
       ELSE /\ requestCache' = CachePopulate(requestCache, proc[p], result, now)
            /\ proc' = [proc EXCEPT ![p] =
                           [proc[p] EXCEPT !.pc = "done",
                                           !.outcome = Resolved(result, proc[p].status)]]
    /\ UNCHANGED <<now, requestCounts, localStorage, callsLeft, limit, rl, st, res>>

(* The caller has taken the result; it may call again. *)
Settle(p) ==
    /\ proc[p].pc = "done"
    /\ proc' = [proc EXCEPT ![p] = IdleProc]
    /\ UNCHANGED <<now, requestCounts, requestCache, localStorage, callsLeft, limit, rl, st, res>>

(***************************************************************************)
(* A caller invoking the rate limiter directly with its ceiling.           *)
(***************************************************************************)
NoWindow == [count |-> 0, resetTime |-> 0]
NoCall == [endpoint |-> "", max |-> 0, time |-> 0, allowed |-> TRUE,
           had |-> FALSE, before |-> NoWindow, after |-> NoWindow]

CallIsRequestAllowed(e) ==
    LET r == isRequestAllowed(requestCounts, e, limit[e], WindowMs, now) IN
    /\ requestCounts' = r.counts
    /\ rl' = [endpoint |-> e, max |-> limit[e], time |-> now, allowed |-> r.allowed,
              had    |-> e \in DOMAIN requestCounts,
              before |-> IF e \in DOMAIN requestCounts THEN requestCounts[e] ELSE NoWindow,
              after  |-> r.counts[e]]
    /\ UNCHANGED <<now, requestCache, localStorage, proc, callsLeft, limit, st, res>>

(***************************************************************************)
(* A caller using secureStorage directly: the strings it stores are the    *)
(* sequences of at most MaxLen code units over a quote, a backslash and    *)
(* the letter n, the code units the JSON text treats specially.            *)
(***************************************************************************)
Chars == {Quote, Backslash, LetterN}
Strings == UNION {[1..n -> Chars] : n \in 0..MaxLen}

(* The record of a call: op, key and value (the value given to setItem, or *)
(* the value getItem returned), and for a getItem: whether it found a      *)
(* value, whether it directly follows a setItem of the same key and of     *)
(* which value, the operation that preceded it on the same key, the raw    *)
(* record it met, and whether it removed that record.                      *)
NoRecord == [json |-> "absent", value |-> <<>>, timestamp |-> 0, checksum |-> 0]
RecordAt(storage, k) == IF k \in DOMAIN storage THEN storage[k] ELSE NoRecord

NoStore == [op |-> "none", key |-> "", value |-> <<>>, found |-> FALSE,
            justSet |-> FALSE, setValue |-> <<>>, prevOp |-> "none",
            before |-> NoRecord, removed |-> FALSE, time |-> 0]

CallSetItem(k, v) ==
    /\ localStorage' = setItem(localStorage, k, v, now)
    /\ st' = [NoStore EXCEPT !.op = "set", !.key = k, !.value = v, !.time = now]
    /\ UNCHANGED <<now, requestCounts, requestCache, proc, callsLeft, limit, rl, res>>

CallGetItem(k) ==
    LET g == getItem(localStorage, k, now)
        after == st.op = "set" /\ st.key = k
    IN  /\ localStorage' = g.storage
        /\ st' = [op |-> "get", key |-> k, value |-> g.value, found |-> g.found,
                  justSet |-> after, setValue |-> IF after THEN st.value ELSE <<>>,
                  prevOp |-> IF st.key = k THEN st.op ELSE "none",
                  before |-> RecordAt(localStorage, k),
                  removed |-> k \in DOMAIN localStorage /\ k \notin DOMAIN g.storage,
                  time |-> now]
        /\ UNCHANGED <<now, requestCounts, requestCache, proc, callsLeft, limit, rl, res>>

CallRemoveItem(k) ==
    /\ localStorage' = removeItem(localStorage, k)
    /\ st' = [NoStore EXCEPT !.op = "remove", !.key = k, !.time = now]
    /\ UNCHANGED <<now, requestCounts, requestCache, proc, callsLeft, limit, rl, res>>

(***************************************************************************)
(* Another script of the page, or the user, writing to localStorage behind *)
(* the back of secureStorage: the value of a record as setItem wrote it    *)
(* replaced by another string with the checksum left as it was, and the    *)
(* whole raw text replaced by the JSON text null or by text that is not    *)
(* JSON.                                                                   *)
(***************************************************************************)
StoredValues == {<<>>, <<65, 97>>, <<66, 66>>}
RawKinds == {"null", "garbage"}
TamperKeys == {"auth_token"}

TamperValue(k, v) ==
    /\ k \in DOMAIN localStorage
    /\ localStorage[k].json = "object"
    /\ JsonUnquote(localStorage[k].value).ok
    /\ generateChecksum(JsonUnquote(localStorage[k].value).value) = localStorage[k].checksum
    /\ JsonUnquote(localStorage[k].value).value # v
    /\ localStorage' = [localStorage EXCEPT ![k].value = JsonQuote(v)]
    /\ st' = [NoStore EXCEPT !.op = "tamper", !.key = k, !.value = v, !.time = now]
    /\ UNCHANGED <<now, requestCounts, requestCache, proc, callsLeft, limit, rl, res>>

WriteRaw(k, j) ==
    /\ localStorage' = MapSet(localStorage, k, [NoRecord EXCEPT !.json = j])
    /\ st' = [NoStore EXCEPT !.op = "raw", !.key = k, !.time = now]
    /\ UNCHANGED <<now, requestCounts, requestCache, proc, callsLeft, limit, rl, res>>

(* The clock over the instants around the 24 hours a record lives. *)
TickAge ==
    /\ \E t \in Around(MaxAgeMs) :
          /\ t > now
          /\ now' = t
    /\ UNCHANGED <<requestCounts, requestCache, localStorage, proc, callsLeft, limit, rl, st, res>>

(***************************************************************************)
(* Specifications.                                                         *)
(***************************************************************************)
(* Spec: one caller, the whole pipeline, at one instant of the clock (the   *)
(* pipeline reads the clock only through the rate limiter and the cache).  *)
LoggedIn == setItem(setItem(EmptyMap, "auth_token", TokenValue, 0), "user_data", UserValue, 0)

(* The rate limiter is a singleton every caller of the page shares: the    *)
(* callers modelled here meet it either unused or in a window in which     *)
(* count calls were already admitted at time 0.                            *)
BusyWindows(count) == [e \in Endpoints |-> [count |-> count, resetTime |-> WindowMs]]

Init ==
    /\ now = 0
    /\ requestCounts \in {EmptyMap, BusyWindows(DefaultMaxRequests - 1)}
    /\ requestCache = EmptyMap
    /\ localStorage \in {EmptyMap, LoggedIn}
    /\ proc = [p \in Procs |-> IdleProc]
    /\ callsLeft = MaxCalls
    /\ limit = [e \in Endpoints |-> DefaultMaxRequests]
    /\ rl = NoCall
    /\ st = NoStore
    /\ res = NoResult

Next ==
    \/ \E p \in Solo, e \in Endpoints, m \in Methods, c \in BOOLEAN, r \in RetryChoices :
          StartRequest(p, e, m, c, r)
    \/ \E p \in Procs, s \in Statuses, h \in RetryAfterHeaders : FetchResponds(p, s, h)
    \/ \E p \in Procs, err \in TransportErrors \cup {AbortError} : FetchFails(p, err)
    \/ \E p \in Procs : DelayDone(p)
    \/ \E p \in Procs : TimeoutFires(p)
    \/ \E p \in Procs, body \in ErrorBodies : ErrBodyRead(p, body)
    \/ \E p \in Procs, result \in Payloads \cup {InvalidJson} : ParseDone(p, result)
    \/ \E p \in Procs : Settle(p)

Spec == Init /\ [][Next]_vars

(* One caller of one endpoint, every attempt answered, over the time it    *)
(* takes a rate-limit window and a cache entry to expire.                  *)
CacheStatuses == {200, 201, 401, 500}

InitCache ==
    /\ now = 0
    /\ requestCounts \in {EmptyMap, BusyWindows(DefaultMaxRequests - 1)}
    /\ requestCache = EmptyMap
    /\ localStorage = LoggedIn
    /\ proc = [p \in Procs |-> IdleProc]
    /\ callsLeft = MaxCalls + 1
    /\ limit = [e \in Endpoints |-> DefaultMaxRequests]
    /\ rl = NoCall
    /\ st = NoStore
    /\ res = NoResult

NextCache ==
    \/ Tick
    \/ \E m \in Methods, c \in BOOLEAN : StartRequest(1, "/courses", m, c, 0)
    \/ \E p \in Procs, s \in CacheStatuses : FetchResponds(p, s, "absent")
    \/ \E p \in Procs : ErrBodyRead(p, "object")
    \/ \E p \in Procs, result \in Payloads : ParseDone(p, result)
    \/ \E p \in Procs : Settle(p)
    \/ ClearCache

SpecCache == InitCache /\ [][NextCache]_vars

(* Two callers whose cacheable GETs overlap. *)
ConcStatuses == {200, 500}

InitConc ==
    /\ now = 0
    /\ requestCounts \in {EmptyMap, BusyWindows(DefaultMaxRequests - 1)}
    /\ requestCache = EmptyMap
    /\ localStorage = LoggedIn
    /\ proc = [p \in Procs |-> IdleProc]
    /\ callsLeft = MaxCalls + 1
    /\ limit = [e \in Endpoints |-> DefaultMaxRequests]
    /\ rl = NoCall
    /\ st = NoStore
    /\ res = NoResult

NextConc ==
    \/ \E p \in Procs, e \in Endpoints : StartRequest(p, e, "GET", TRUE, 0)
    \/ \E p \in Procs, s \in ConcStatuses : FetchResponds(p, s, "absent")
    \/ \E p \in Procs : ErrBodyRead(p, "object")
    \/ \E p \in Procs, result \in Payloads : ParseDone(p, result)
    \/ \E p \in Procs : Settle(p)

SpecConc == InitConc /\ [][NextConc]_vars

(* One caller of one endpoint, uncached, every path of the retry loop: any *)
(* answer or exception per attempt, the timeout firing at any moment.      *)
InitRetry ==
    /\ now = 0
    /\ requestCounts = EmptyMap
    /\ requestCache = EmptyMap
    /\ localStorage = LoggedIn
    /\ proc = [p \in Procs |-> IdleProc]
    /\ callsLeft = MaxCalls
    /\ limit = [e \in Endpoints |-> DefaultMaxRequests]
    /\ rl = NoCall
    /\ st = NoStore
    /\ res = NoResult

NextRetry ==
    \/ \E r \in RetryChoices : StartRequest(1, "/courses", "GET", FALSE, r)
    \/ \E p \in Procs, s \in RetryStatuses, h \in RetryAfterValues : FetchResponds(p, s, h)
    \/ \E p \in Procs, err \in TransportErrors \cup {AbortError} : FetchFails(p, err)
    \/ \E p \in Procs : DelayDone(p)
    \/ \E p \in Procs : TimeoutFires(p)
    \/ \E p \in Procs, body \in ErrorBodies : ErrBodyRead(p, body)
    \/ \E p \in Procs, result \in {"{id:1}", InvalidJson} : ParseDone(p, result)
    \/ \E p \in Procs : Settle(p)

SpecRetry == InitRetry /\ [][NextRetry]_vars

(* The same with the scheduling the event loop gives a pending call: a     *)
(* fetch in flight completes or, once the signal is aborted, rejects; the  *)
(* timer of a delay fires; the read of a response body completes.          *)
FetchCompletes(p) ==
    \/ \E s \in RetryStatuses, h \in RetryAfterValues : FetchResponds(p, s, h)
    \/ \E err \in TransportErrors \cup {AbortError} : FetchFails(p, err)

FairRetry ==
    \A p \in Procs :
        /\ WF_vars(FetchCompletes(p))
        /\ WF_vars(DelayDone(p))
        /\ WF_vars(\E body \in ErrorBodies : ErrBodyRead(p, body))
        /\ WF_vars(\E result \in {"{id:1}", InvalidJson} : ParseDone(p, result))

SpecLive == InitRetry /\ [][NextRetry]_vars /\ FairRetry

InitRL ==
    /\ now = 0
    /\ requestCounts = EmptyMap
    /\ requestCache = EmptyMap
    /\ localStorage = EmptyMap
    /\ proc = [p \in Procs |-> IdleProc]
    /\ callsLeft = 0
    /\ limit \in [Endpoints -> Ceilings]
    /\ rl = NoCall
    /\ st = NoStore
    /\ res = NoResult

NextRL ==
    \/ Tick
    \/ \E e \in Endpoints : CallIsRequestAllowed(e)

SpecRL == InitRL /\ [][NextRL]_vars

(* One caller whose calls end with every status of the code table, with    *)
(* statuses outside it, and with every kind of error body.                 *)
ErrStatuses == {200, 400, 401, 403, 404, 409, 418, 422, 500, 502, 503, 504, 507}

NextErr ==
    \/ \E m \in Methods, r \in {0, 1} : StartRequest(1, "/courses", m, FALSE, r)
    \/ \E p \in Procs, s \in ErrStatuses : FetchResponds(p, s, "absent")
    \/ \E p \in Procs : DelayDone(p)
    \/ \E p \in Procs, body \in ErrorBodies : ErrBodyRead(p, body)
    \/ \E p \in Procs : ParseDone(p, "{id:1}")
    \/ \E p \in Procs : Settle(p)

SpecErr == InitRetry /\ [][NextErr]_vars

(* One caller uploading files. *)
FileSizes == {1, MaxFileSize, MaxFileSize + 1}
FileNames == {<<"photo", "png">>, <<"photo", "PNG">>, <<"setup", "Exe">>, <<"README">>,
              <<"notes", "">>, <<"archive", "tar", "gz">>}
Files == [size : FileSizes, name : FileNames]

InitUpload ==
    /\ now = 0
    /\ requestCounts \in {EmptyMap, BusyWindows(DefaultMaxRequests - 1)}
    /\ requestCache = EmptyMap
    /\ localStorage = LoggedIn
    /\ proc = [p \in Procs |-> IdleProc]
    /\ callsLeft = MaxCalls
    /\ limit = [e \in Endpoints |-> DefaultMaxRequests]
    /\ rl = NoCall
    /\ st = NoStore
    /\ res = NoResult

NextUpload ==
    \/ \E e \in Endpoints, f \in Files : UploadFile(1, e, f)
    \/ \E p \in Procs, s \in {201, 500} : FetchResponds(p, s, "absent")
    \/ \E p \in Procs : DelayDone(p)
    \/ \E p \in Procs : ErrBodyRead(p, "object")
    \/ \E p \in Procs : ParseDone(p, "{id:1}")
    \/ \E p \in Procs : Settle(p)

SpecUpload == InitUpload /\ [][NextUpload]_vars

(***************************************************************************)
(* SecurityManager.sanitizeText.  A string is the sequence of its          *)
(* characters; "NUL" stands for the character U+0000.                      *)
(***************************************************************************)
MaxInputLength == 10000
ControlChars == {"NUL"}
WhiteSpace == {" "}
UpperCase == {"A", "B", "C", "D", "E", "F", "G", "H", "I", "J", "K", "L", "M", "N", "O",
              "P", "Q", "R", "S", "T", "U", "V", "W", "X", "Y", "Z"}
LowerCase == {"a", "b", "c", "d", "e", "f", "g", "h", "i", "j", "k", "l", "m", "n", "o",
              "p", "q", "r", "s", "t", "u", "v", "w", "x", "y", "z"}
WordChars == UpperCase \cup LowerCase \cup {"0", "1", "2", "3", "4", "5", "6", "7", "8", "9", "_"}
LowerOf(c) ==
    CASE c = "A" -> "a" [] c = "B" -> "b" [] c = "C" -> "c" [] c = "D" -> "d"
      [] c = "I" -> "i" [] c = "J" -> "j" [] c = "P" -> "p" [] c = "R" -> "r"
      [] c = "S" -> "s" [] c = "T" -> "t" [] c = "V" -> "v" [] OTHER -> c
Lower(str) == [i \in 1..Len(str) |-> LowerOf(str[i])]

(* Does the pattern, letter case ignored, match str at position i? *)
MatchesAt(str, i, pat) ==
    /\ i + Len(pat) - 1 <= Len(str)
    /\ Lower(SubSeq(str, i, i + Len(pat) - 1)) = pat

(* str.replace(/pat/gi, ''): the matches are found left to right in the    *)
(* string as it is, each search starting after the previous match.         *)
RECURSIVE RemoveAll(_, _)
RemoveAll(str, pat) ==
    IF str = <<>> THEN <<>>
    ELSE IF MatchesAt(str, 1, pat) THEN RemoveAll(SubSeq(str, Len(pat) + 1, Len(str)), pat)
    ELSE <<str[1]>> \o RemoveAll(Tail(str), pat)

ScriptOpen == <<"<", "s", "c", "r", "i", "p", "t">>
ScriptClose == <<"<", "/", "s", "c", "r", "i", "p", "t", ">">>

(* The length of the match of the script-block pattern of line 80 at the   *)
(* head of str, 0 when there is none: "<script" at a word boundary, then   *)
(* text without "<", then any number of "<" that do not begin "</script>"  *)
(* each with the text after it, then "</script>"; that is, everything up   *)
(* to and including the first "</script>", letter case ignored.            *)
ScriptMatchLen(str) ==
    IF /\ MatchesAt(str, 1, ScriptOpen)
       /\ Len(str) > Len(ScriptOpen)
       /\ str[Len(ScriptOpen) + 1] \notin WordChars
       /\ \E j \in Len(ScriptOpen) + 1 .. Len(str) : MatchesAt(str, j, ScriptClose)
    THEN LET j == CHOOSE k \in Len(ScriptOpen) + 1 .. Len(str) :
                      /\ MatchesAt(str, k, ScriptClose)
                      /\ \A l \in Len(ScriptOpen) + 1 .. k - 1 : ~MatchesAt(str, l, ScriptClose)
         IN  j + Len(ScriptClose) - 1
    ELSE 0

RECURSIVE RemoveScripts(_)
RemoveScripts(str) ==
    IF str = <<>> THEN <<>>
    ELSE IF ScriptMatchLen(str) > 0
    THEN RemoveScripts(SubSeq(str, ScriptMatchLen(str) + 1, Len(str)))
    ELSE <<str[1]>> \o RemoveScripts(Tail(str))

RemoveControl(str) == SelectSeq(str, LAMBDA c : c \notin ControlChars)

RECURSIVE TrimStart(_)
TrimStart(str) ==
    IF str # <<>> /\ str[1] \in WhiteSpace THEN TrimStart(Tail(str)) ELSE str
RECURSIVE TrimEnd(_)
TrimEnd(str) ==
    IF str # <<>> /\ str[Len(str)] \in WhiteSpace
    THEN TrimEnd(SubSeq(str, 1, Len(str) - 1)) ELSE str
Trim(str) == TrimEnd(TrimStart(str))

Slice(str, n) == SubSeq(str, 1, IF Len(str) < n THEN Len(str) ELSE n)

JavascriptScheme == <<"j", "a", "v", "a", "s", "c", "r", "i", "p", "t", ":">>
DataScheme == <<"d", "a", "t", "a", ":">>
VbscriptScheme == <<"v", "b", "s", "c", "r", "i", "p", "t", ":">>

sanitizeText(input) ==
    LET noControl == RemoveControl(input)
        limited   == Slice(Trim(noControl), MaxInputLength)
        noScript  == RemoveScripts(limited)
        noJs      == RemoveAll(noScript, JavascriptScheme)
        noData    == RemoveAll(noJs, DataScheme)
    IN  RemoveAll(noData, VbscriptScheme)

(* The inputs: up to MaxParts pieces put one after the other. *)
Pieces ==
    { <<"<", "s", "c", "r", "i", "p", "t", ">">>, ScriptClose, <<"h", "i">>,
      <<"d", "a">>, <<"t", "a", ":">>, <<"D", "a", "T", "a", ":">>,
      <<"J", "a", "v", "a", "S", "c", "r", "i", "p", "t", ":">>, VbscriptScheme,
      <<" ">>, <<"NUL">> }
RECURSIVE Concat(_)
Concat(parts) == IF parts = <<>> THEN <<>> ELSE parts[1] \o Concat(Tail(parts))
ScriptExample ==
    <<"<", "s", "c", "r", "i", "p", "t", ">", "a", "l", "e", "r", "t", "(", "1", ")",
      "<", "/", "s", "c", "r", "i", "p", "t", ">", "h", "i">>
TextInputs ==
    {ScriptExample} \cup
        UNION { {Concat(parts) : parts \in [1..n -> Pieces]} : n \in 0..MaxParts }

CallSanitizeText(input) ==
    /\ res = NoResult
    /\ res' = [op |-> "sanitize", input |-> input, output |-> sanitizeText(input)]
    /\ UNCHANGED <<now, requestCounts, requestCache, localStorage, proc, callsLeft, limit,
                   rl, st>>

NextSanitize == \E input \in TextInputs : CallSanitizeText(input)

SpecSanitize == InitRetry /\ [][NextSanitize]_vars

(* One caller passing its own headers and a body. *)
InitHeaders ==
    /\ now = 0
    /\ requestCounts = EmptyMap
    /\ requestCache = EmptyMap
    /\ localStorage \in {EmptyMap, LoggedIn}
    /\ proc = [p \in Procs |-> IdleProc]
    /\ callsLeft = MaxCalls
    /\ limit = [e \in Endpoints |-> DefaultMaxRequests]
    /\ rl = NoCall
    /\ st = NoStore
    /\ res = NoResult

NextHeaders ==
    \/ \E m \in Methods, hs \in CallerHeaders, b \in BodyKinds :
          StartRequestWithHeaders(1, "/courses", m, hs, b)
    \/ \E p \in Procs, s \in {200, 401} : FetchResponds(p, s, "absent")
    \/ \E p \in Procs : ErrBodyRead(p, "object")
    \/ \E p \in Procs : ParseDone(p, "{id:1}")
    \/ \E p \in Procs : Settle(p)

SpecHeaders == InitHeaders /\ [][NextHeaders]_vars

(* Direct calls of secureStorage on both keys. *)
InitStore ==
    /\ now = 0
    /\ requestCounts = EmptyMap
    /\ requestCache = EmptyMap
    /\ localStorage \in {EmptyMap, LoggedIn}
    /\ proc = [p \in Procs |-> IdleProc]
    /\ callsLeft = 0
    /\ limit = [e \in Endpoints |-> DefaultMaxRequests]
    /\ rl = NoCall
    /\ st = NoStore
    /\ res = NoResult

NextStore ==
    \/ \E k \in StorageKeys, v \in Strings : CallSetItem(k, v)
    \/ \E k \in StorageKeys : CallGetItem(k)

SpecStore == InitStore /\ [][NextStore]_vars

(* secureStorage on one key over the 24 hours a record lives, together     *)
(* with the external writes to the raw record.                             *)
InitTamper ==
    /\ now = 0
    /\ requestCounts = EmptyMap
    /\ requestCache = EmptyMap
    /\ localStorage = EmptyMap
    /\ proc = [p \in Procs |-> IdleProc]
    /\ callsLeft = 0
    /\ limit = [e \in Endpoints |-> DefaultMaxRequests]
    /\ rl = NoCall
    /\ st = NoStore
    /\ res = NoResult

NextTamper ==
    \/ TickAge
    \/ \E k \in TamperKeys, v \in StoredValues : CallSetItem(k, v)
    \/ \E k \in TamperKeys : CallGetItem(k)
    \/ \E k \in TamperKeys : CallRemoveItem(k)
    \/ \E k \in TamperKeys, v \in StoredValues : TamperValue(k, v)
    \/ \E k \in TamperKeys, j \in RawKinds : WriteRaw(k, j)

SpecTamper == InitTamper /\ [][NextTamper]_vars

(***************************************************************************)
(* Properties.                                                             *)
(***************************************************************************)
Done(p) == proc[p].pc = "done"
Out(p) == proc[p].outcome

(* C1: every call to request() that has settled either resolved or         *)
(* rejected with an ApiError; it never rejects with another kind of value. *)
C1_SettlesWithApiError ==
    \A p \in Procs :
        Done(p) => \/ Out(p).kind = "resolved"
                   \/ Out(p).kind = "rejected" /\ Out(p).error.class = "ApiError"

(* C2: a call all of whose retries + 1 network attempts received HTTP 429  *)
(* rejects with an ApiError of status 429 and code RATE_LIMITED.           *)
C2_Exhausted429IsRateLimited ==
    \A p \in Procs :
        (Done(p) /\ proc[p].kinds = {"429"} /\ proc[p].attempts = proc[p].retries + 1)
            => Out(p) = Rejected(ApiError(429, "RATE_LIMITED"))

(* C3: when the final response of a call has status 401, whatever its body *)
(* is, auth_token and user_data are gone from secure storage once the call *)
(* has settled, and the call has rejected with the 401 error.              *)
C3_Unauthorized401ClearsCredentials ==
    \A p \in Procs :
        (Done(p) /\ proc[p].status = 401)
            => /\ StorageKeys \cap DOMAIN localStorage = {}
               /\ Out(p).kind = "rejected"
               /\ Out(p).error.class = "ApiError"
               /\ Out(p).status = 401

(* C4: with ceiling N, the calls of one window are allowed while fewer     *)
(* than N calls were admitted in it and the call after the N-th is denied; *)
(* the first call of an endpoint, and a call made once the window of       *)
(* windowMs has elapsed, are allowed.                                      *)
C4_CeilingPerWindow ==
    rl.endpoint # "" =>
        IF ~rl.had \/ rl.time >= rl.before.resetTime
        THEN rl.allowed
        ELSE rl.allowed = (rl.before.count < rl.max)

(* C5: the count of every rate-limit window stays within the ceiling       *)
(* request() passes, however the calls of the callers interleave.          *)
C5_CountWithinCeiling ==
    \A e \in DOMAIN requestCounts : requestCounts[e].count <= DefaultMaxRequests

(* C5 witness: a caller was refused at the full window while the call of   *)
(* another caller to the same endpoint is still in flight.                 *)
C5_Witness ==
    \E p, q \in Procs :
        /\ Done(p) /\ ~proc[p].admitted
        /\ proc[q].pc = "fetch" /\ proc[q].endpoint = proc[p].endpoint
        /\ requestCounts[proc[p].endpoint].count = DefaultMaxRequests

(* C6: a call made at the reset time of the current window starts a fresh  *)
(* window with count 1 and is allowed.                                     *)
C6_FreshWindowAtReset ==
    (rl.had /\ rl.time = rl.before.resetTime)
        => /\ rl.allowed
           /\ rl.after = [count |-> 1, resetTime |-> rl.time + WindowMs]

(* C7: a denied call leaves the window of its endpoint as it was, count    *)
(* and reset time alike.                                                   *)
C7_DeniedLeavesWindow ==
    ~rl.allowed => rl.had /\ rl.after = rl.before /\ requestCounts[rl.endpoint] = rl.before

(* C7 witness: a call denied some time after its window began. *)
C7_Witness == ~rl.allowed /\ rl.time > 0 /\ rl.time <= rl.before.resetTime

(* C8: a call the rate limiter refuses has rejected with ApiError 429      *)
(* RATE_LIMITED with no network attempt and no backoff delay.              *)
C8_RefusedRejectsAtOnce ==
    \A p \in Procs :
        (proc[p].pc # "idle" /\ ~proc[p].admitted)
            => /\ Done(p)
               /\ Out(p) = Rejected(ApiError(429, "RATE_LIMITED"))
               /\ proc[p].attempts = 0
               /\ proc[p].delays = <<>>
               /\ ~proc[p].fromCache

(* C8 witness: a refused call has settled. *)
C8_Witness == \E p \in Procs : Done(p) /\ ~proc[p].admitted /\ Out(p).status = 429

(* C9: an admitted cacheable GET that finds an entry less than 5 minutes   *)
(* old resolves with the cached payload and status 200 without a network   *)
(* attempt, whatever the payload is; one that finds no such entry is not   *)
(* served from the cache.                                                  *)
C9_CachedGetServed ==
    \A p \in Procs :
        (proc[p].pc # "idle" /\ proc[p].admitted /\ proc[p].method = "GET"
            /\ proc[p].cacheable)
            => IF proc[p].entry.fresh
               THEN /\ Done(p) /\ proc[p].fromCache /\ proc[p].attempts = 0
                    /\ Out(p) = Resolved(proc[p].entry.data, 200)
               ELSE ~proc[p].fromCache

(* C10: every entry of the response cache was written by a cacheable GET   *)
(* whose final response had status 200, and expires 5 minutes after it was *)
(* written.                                                                *)
C10_CacheProvenance ==
    \A e \in DOMAIN requestCache :
        /\ requestCache[e].writer.method = "GET"
        /\ requestCache[e].writer.cacheable
        /\ requestCache[e].writer.status = 200
        /\ requestCache[e].expires = requestCache[e].writer.time + CacheTtlMs

(* C10 witness: an entry written after time had passed is in the cache     *)
(* while a cacheable GET answered 201 and later a POST answered 200 have   *)
(* completed.                                                              *)
C10_Witness ==
    \E e \in DOMAIN requestCache, p \in Procs :
        /\ requestCache[e].writer.time > 0
        /\ Done(p) /\ Out(p).kind = "resolved" /\ proc[p].endpoint = e
        /\ \/ proc[p].method = "POST" /\ Out(p).status = 200
           \/ proc[p].method = "GET" /\ proc[p].cacheable /\ Out(p).status = 201

C12_ExhaustedServerErrors ==
    \A p \in Procs :
        (Done(p) /\ proc[p].kinds = {"5xx"})
            => /\ proc[p].attempts = proc[p].retries + 1
               /\ proc[p].delays = [a \in 1..proc[p].retries |-> (2 ^ (a - 1)) * 1000]
               /\ Out(p).kind = "rejected"
               /\ Out(p).error.class = "ApiError"
               /\ Out(p).status = proc[p].answer.status

(* C13: a call all of whose attempts failed with a transport exception,    *)
(* of whatever kind, has retried with delays of 2^attempt seconds and has  *)
(* rejected with an ApiError of code NETWORK_ERROR.                        *)
C13_ExhaustedTransportErrors ==
    \A p \in Procs :
        (Done(p) /\ proc[p].kinds = {"exception"})
            => /\ proc[p].attempts = proc[p].retries + 1
               /\ proc[p].delays = [a \in 1..proc[p].retries |-> (2 ^ (a - 1)) * 1000]
               /\ Out(p).kind = "rejected"
               /\ Out(p).error.class = "ApiError"
               /\ Out(p).error.code = "NETWORK_ERROR"

(* C14: a call never makes more than retries + 1 network attempts,         *)
(* whatever its attempts receive; every attempt, one answered 429          *)
(* included, takes one step of the loop counter.                           *)
C14_AttemptBudget ==
    \A p \in Procs :
        /\ proc[p].attempts <= proc[p].retries + 1
        /\ proc[p].pc \in {"fetch", "delay"} => proc[p].attempts = proc[p].attempt + 1

(* C14 witness: a call with three retries that met a 429, a 5xx and an     *)
(* exception has used its four attempts.                                   *)
C14_Witness ==
    \E p \in Procs :
        /\ Done(p) /\ proc[p].retries = 3 /\ proc[p].attempts = 4
        /\ {"429", "5xx", "exception"} \subseteq proc[p].kinds

(* C15: the wait after a 429 response is the integer value of its          *)
(* Retry-After header in seconds when the header is present, and 2^attempt *)
(* seconds when it is absent.                                              *)
C15_RetryAfterHonoured ==
    \A p \in Procs :
        (proc[p].pc = "delay" /\ proc[p].answer.status = 429)
            => proc[p].delays[Len(proc[p].delays)] =
                   IF proc[p].answer.retryAfter = "absent"
                   THEN (2 ^ proc[p].attempt) * 1000
                   ELSE ParseInt(proc[p].answer.retryAfter) * 1000

(* C15 witness: Retry-After: 2 on the first attempt, a wait of 2 seconds.  *)
C15_Witness ==
    \E p \in Procs :
        /\ proc[p].pc = "delay" /\ proc[p].attempt = 0
        /\ proc[p].answer = [status |-> 429, retryAfter |-> "2"]
        /\ proc[p].delays = <<2000>>

(* C16: a response of status 4xx other than 429 ends the call on the       *)
(* attempt that received it: no delay and no further attempt follow it,    *)
(* and the call rejects with an error carrying that status.                *)
C16_ClientErrorEndsCall ==
    \A p \in Procs :
        (proc[p].answer.status >= 400 /\ proc[p].answer.status < 500
            /\ proc[p].answer.status # 429)
            => /\ proc[p].pc \in {"errbody", "done"}
               /\ Len(proc[p].delays) = proc[p].attempts - 1
               /\ Done(p) => /\ Out(p).kind = "rejected"
                              /\ Out(p).status = proc[p].answer.status

(* C17: a call one of whose attempts was aborted by the timeout, no        *)
(* response having been returned, has rejected with ApiError 408 TIMEOUT.  *)
C17_TimeoutRejects408 ==
    \A p \in Procs :
        (Done(p) /\ "abort" \in proc[p].kinds)
            => /\ proc[p].aborted
               /\ Out(p) = Rejected(ApiError(408, "TIMEOUT"))

(* C17 witness: the timeout fired while the first of four attempts was in  *)
(* flight.                                                                 *)
C17_Witness ==
    \E p \in Procs :
        /\ Done(p) /\ proc[p].kinds = {"abort"} /\ proc[p].attempts = 4
        /\ Out(p).status = 408

(* C18: every call to request() that has been started eventually settles, *)
(* and a settled call keeps its one outcome until the caller has taken it: *)
(* it never settles a second time.                                         *)
C18_SettlesExactlyOnce ==
    /\ \A p \in Procs : (proc[p].pc \notin {"idle", "done"}) ~> Done(p)
    /\ [][\A p \in Procs : Done(p) => proc'[p] \in {proc[p], IdleProc}]_vars

(* C18 witness: a call that waited for the network, for a backoff delay    *)
(* and for the read of a body has settled.                                 *)
C18_Witness ==
    \E p \in Procs :
        /\ Done(p) /\ proc[p].delays # <<>> /\ Out(p).kind = "resolved"
        /\ proc[p].attempts = proc[p].retries + 1

(* C19: calls are not coalesced.  An admitted cacheable GET that found no  *)
(* cache entry makes its own network attempt even while another call to    *)
(* the same endpoint is in flight, and when it resolves from a response of *)
(* status 200 it writes the cache entry with the data it resolved with.    *)
C19_NoCoalescing ==
    /\ [](\A p \in Procs :
            (proc[p].pc # "idle" /\ proc[p].admitted /\ ~proc[p].entry.fresh)
                => ~proc[p].fromCache /\ proc[p].attempts >= 1)
    /\ [][\A p \in Procs :
            (proc[p].pc = "parse" /\ proc'[p].pc = "done"
                /\ proc'[p].outcome.kind = "resolved" /\ proc[p].status = 200)
                => /\ proc[p].endpoint \in DOMAIN requestCache'
                   /\ requestCache'[proc[p].endpoint].data = proc'[p].outcome.data
                   /\ requestCache'[proc[p].endpoint].writer.time = now]_vars

(* C19 witness: two calls to one endpoint, each started while the cache    *)
(* had no entry, have each made one attempt and resolved with different    *)
(* data from a 200 response; the cache holds the data of one of them.      *)
C19_Witness ==
    \E p, q \in Procs :
        /\ p # q /\ Done(p) /\ Done(q) /\ proc[p].endpoint = proc[q].endpoint
        /\ ~proc[p].entry.fresh /\ ~proc[q].entry.fresh
        /\ proc[p].attempts = 1 /\ proc[q].attempts = 1
        /\ Out(p).kind = "resolved" /\ Out(p).status = 200
        /\ Out(q).kind = "resolved" /\ Out(q).status = 200
        /\ Out(p).data # Out(q).data
        /\ requestCache[proc[p].endpoint].data = Out(q).data

C21_TamperedValueRejected ==
    (st.op = "get" /\ st.prevOp = "tamper") => ~st.found /\ st.removed

(* C22: a getItem that meets a record whose timestamp is more than 24      *)
(* hours in the past finds nothing and removes the record, whether or not  *)
(* its checksum is valid; one that meets a record of at most 24 hours with *)
(* a valid checksum returns its value and leaves it.                       *)
C22_StaleAfter24Hours ==
    (st.op = "get" /\ st.before.json = "object")
        => LET age == st.time - st.before.timestamp
               data == JsonUnquote(st.before.value)
               valid == data.ok /\ generateChecksum(data.value) = st.before.checksum
           IN  /\ age > 24 * 60 * 60 * 1000 => ~st.found /\ st.removed
               /\ (age <= 24 * 60 * 60 * 1000 /\ valid)
                      => st.found /\ st.value = data.value /\ ~st.removed

(* C22 witness: a record of exactly 24 hours has been returned. *)
C22_Witness ==
    /\ st.op = "get" /\ st.before.json = "object"
    /\ st.time - st.before.timestamp = 24 * 60 * 60 * 1000
    /\ st.found /\ st.value = <<65, 97>>

(* C30: a getItem that meets a raw record that is not JSON, or that is the *)
(* JSON text null, finds nothing and leaves the raw record where it is, so *)
(* that the getItem after it finds nothing either; a getItem that finds    *)
(* nothing in a well-formed record removes it.                             *)
C30_UnparsableRecordKept ==
    st.op = "get" =>
        /\ st.before.json \in RawKinds
               => /\ ~st.found /\ ~st.removed
                  /\ st.key \in DOMAIN localStorage
                  /\ localStorage[st.key] = st.before
        /\ (st.before.json = "object" /\ ~st.found) => st.removed

(* C30 witness: the second getItem in a row on a raw record that is the    *)
(* JSON text null.                                                         *)
C30_Witness ==
    /\ st.op = "get" /\ st.prevOp = "get" /\ st.before.json = "null" /\ ~st.found

(* C23: the headers a call hands to fetch carry, whatever headers the      *)
(* caller supplied, X-Requested-With: XMLHttpRequest, Content-Type:        *)
(* application/json unless the body is FormData (then no Content-Type),    *)
(* the X-CSRF-Token of the gate, and Authorization: Bearer <token> when an *)
(* auth_token is held in secure storage.                                   *)
C23_SecurityHeadersOnEveryAttempt ==
    res.op = "headers" =>
        LET h == res.headers
            Carries(n, v) == n \in DOMAIN h /\ h[n] = v
        IN  /\ Carries("X-Requested-With", "XMLHttpRequest")
            /\ IF res.body = "formdata" THEN "Content-Type" \notin DOMAIN h
               ELSE Carries("Content-Type", "application/json")
            /\ Carries("X-CSRF-Token", CsrfToken)
            /\ res.token => Carries("Authorization", "Bearer tk")

(* C24: an upload of a file larger than 10 MB, or whose extension is not   *)
(* allowed, has rejected with an ApiError of code INVALID_FILE without a   *)
(* network attempt, and the step that refused it left the rate-limit       *)
(* windows, the cache and the storage as they were.                        *)
C24_InvalidFileRejectedFirst ==
    [][\A p \in Procs :
        LET f == proc'[p].file
        IN  (/\ f # NoFile
             /\ \/ f.size > 10 * 1024 * 1024
                \/ f.name[Len(f.name)] \notin
                       {"jpg", "jpeg", "png", "gif", "pdf", "txt", "md", "py", "js", "ts",
                        "PNG"})
                => /\ proc'[p].pc = "done"
                   /\ proc'[p].outcome.kind = "rejected"
                   /\ proc'[p].outcome.error.class = "ApiError"
                   /\ proc'[p].outcome.error.code = "INVALID_FILE"
                   /\ proc'[p].attempts = 0
                   /\ proc'[p].delays = <<>>
                   /\ proc[p].pc = "idle"
                          => /\ requestCounts' = requestCounts
                             /\ requestCache' = requestCache
                             /\ localStorage' = localStorage]_vars

(* C24 witness: an upload refused for its extension has settled and its    *)
(* endpoint has no rate-limit window.                                      *)
C24_Witness ==
    \E p \in Procs :
        /\ Done(p) /\ proc[p].file.name = <<"setup", "Exe">> /\ proc[p].file.size = 1
        /\ Out(p).error.code = "INVALID_FILE"
        /\ proc[p].endpoint \notin DOMAIN requestCounts

(* C25: a call whose final response was not 2xx has rejected with an       *)
(* ApiError carrying the response's status, and the code of the JSON error *)
(* body when it has one, otherwise the table's code for the status, and    *)
(* UNKNOWN_ERROR for a status outside the table.                           *)
C25_ErrorCodeFromBodyOrTable ==
    LET Table == [s \in {400, 401, 403, 404, 409, 422, 429, 500, 502, 503, 504} |->
                    CASE s = 400 -> "BAD_REQUEST"      [] s = 401 -> "UNAUTHORIZED"
                      [] s = 403 -> "FORBIDDEN"        [] s = 404 -> "NOT_FOUND"
                      [] s = 409 -> "CONFLICT"         [] s = 422 -> "VALIDATION_ERROR"
                      [] s = 429 -> "RATE_LIMITED"     [] s = 500 -> "INTERNAL_ERROR"
                      [] s = 502 -> "BAD_GATEWAY"      [] s = 503 -> "SERVICE_UNAVAILABLE"
                      [] s = 504 -> "GATEWAY_TIMEOUT"]
    IN  \A p \in Procs :
            (Done(p) /\ proc[p].errBody # "none")
                => /\ Out(p).kind = "rejected"
                   /\ Out(p).error.class = "ApiError"
                   /\ Out(p).error.status = proc[p].answer.status
                   /\ Out(p).error.code =
                          IF proc[p].errBody = "object_with_code" THEN "SERVER_CODE"
                          ELSE IF proc[p].answer.status \in DOMAIN Table
                          THEN Table[proc[p].answer.status]
                          ELSE "UNKNOWN_ERROR"

(* C26: the text sanitizeText returns has no <script ...>...</script>      *)
(* block, has none of javascript:, data: and vbscript: in any letter case, *)
(* and is at most 10000 characters long; "<script>alert(1)</script>hi"     *)
(* gives "hi".                                                             *)
C26_SanitizedTextIsClean ==
    res.op = "sanitize" =>
        LET out == res.output
            low == [i \in 1..Len(out) |->
                      CASE out[i] = "A" -> "a" [] out[i] = "B" -> "b" [] out[i] = "C" -> "c"
                        [] out[i] = "D" -> "d" [] out[i] = "I" -> "i" [] out[i] = "J" -> "j"
                        [] out[i] = "P" -> "p" [] out[i] = "R" -> "r" [] out[i] = "S" -> "s"
                        [] out[i] = "T" -> "t" [] out[i] = "V" -> "v" [] OTHER -> out[i]]
            Has(pat) == \E i \in 1..Len(out) :
                            /\ i + Len(pat) - 1 <= Len(out)
                            /\ SubSeq(low, i, i + Len(pat) - 1) = pat
            HasAt(i, pat) == /\ i + Len(pat) - 1 <= Len(out)
                             /\ SubSeq(low, i, i + Len(pat) - 1) = pat
        IN  /\ ~Has(<<"j", "a", "v", "a", "s", "c", "r", "i", "p", "t", ":">>)
            /\ ~Has(<<"d", "a", "t", "a", ":">>)
            /\ ~Has(<<"v", "b", "s", "c", "r", "i", "p", "t", ":">>)
            /\ ~\E i, j \in 1..Len(out) :
                    /\ HasAt(i, <<"<", "s", "c", "r", "i", "p", "t", ">">>)
                    /\ j > i
                    /\ HasAt(j, <<"<", "/", "s", "c", "r", "i", "p", "t", ">">>)
            /\ Len(out) <= 10000
            /\ res.input = ScriptExample => out = <<"h", "i">>

(* C27: once the timeout has fired the signal stays aborted for the rest   *)
(* of the call; the call is then in a fetch, in a backoff delay or settled, gets no response any    *)
(* more, goes from each remaining attempt but the last into the backoff    *)
(* delay of that attempt, and settles only by rejecting, after all its     *)
(* attempts were made.                                                     *)
C27_TimeoutSignalShared ==
    [][\A p \in Procs :
        LET old == proc[p]
            new == proc'[p]
        IN  /\ new.aborted
                => /\ new.pc \in {"fetch", "delay", "done"}
                   /\ new.pc = "done"
                          => /\ new.outcome.kind = "rejected"
                             /\ new.attempts = new.retries + 1
                             /\ Len(new.delays) >= new.retries
            /\ (old.aborted /\ old.pc # "done")
                => /\ new.aborted
                   /\ new.answer \in {old.answer, NoAnswer}
                   /\ (old.pc = "fetch" /\ new # old)
                          => IF old.attempt < old.retries
                             THEN /\ new.pc = "delay"
                                  /\ new.delays = Append(old.delays, (2 ^ old.attempt) * 1000)
                             ELSE new.pc = "done"
                   /\ (old.pc = "delay" /\ new # old)
                          => IF old.attempt < old.retries
                             THEN new.pc = "fetch" /\ new.attempts = old.attempts + 1
                             ELSE new.pc = "done"]_vars

(* C27 witness: a call with three retries whose timeout fired after a      *)
(* server error has made its four attempts, waited three times and         *)
(* rejected with the timeout error.                                        *)
C27_Witness ==
    \E p \in Procs :
        /\ Done(p) /\ proc[p].aborted /\ proc[p].kinds = {"5xx", "abort"}
        /\ proc[p].retries = DefaultRetries /\ proc[p].attempts = 4
        /\ proc[p].delays = <<1000, 2000, 4000>>
        /\ Out(p) = Rejected(ApiError(408, "TIMEOUT"))

(* C28: the cache changes only when clearCache() empties it, when a        *)
(* cacheable GET call drops the expired entry of its endpoint at its       *)
(* lookup, or when a cacheable GET call answered with 200 writes the entry *)
(* of its endpoint; every other step, the credential cleanup after a 401   *)
(* included, leaves every entry as it was.                                 *)
C28_CacheFrame ==
    [][requestCache' # requestCache
        => \/ requestCache' = EmptyMap /\ proc' = proc
           \/ \E p \in Procs :
                 /\ proc[p].pc = "idle" /\ proc'[p].pc # "idle"
                 /\ proc'[p].method = "GET" /\ proc'[p].cacheable
                 /\ proc'[p].endpoint \in DOMAIN requestCache
                 /\ requestCache[proc'[p].endpoint].expires <= now
                 /\ DOMAIN requestCache' = DOMAIN requestCache \ {proc'[p].endpoint}
                 /\ \A e \in DOMAIN requestCache' : requestCache'[e] = requestCache[e]
           \/ \E p \in Procs :
                 /\ proc[p].pc = "parse" /\ proc'[p].pc = "done"
                 /\ proc[p].method = "GET" /\ proc[p].cacheable /\ proc[p].status = 200
                 /\ DOMAIN requestCache' = DOMAIN requestCache \cup {proc[p].endpoint}
                 /\ \A e \in DOMAIN requestCache \ {proc[p].endpoint} :
                        requestCache'[e] = requestCache[e]]_vars

(* C28 witness: a cacheable GET is served the cached payload after a 401   *)
(* answer to another call has removed both credentials.                    *)
C28_Witness ==
    \E p \in Procs :
        /\ Done(p) /\ proc[p].fromCache /\ Out(p) = Resolved("{id:1}", 200)
        /\ StorageKeys \cap DOMAIN localStorage = {}
        /\ proc[p].endpoint \in DOMAIN requestCache

(* C29: a call that starts while the window of its endpoint is exhausted   *)
(* rejects with RATE_LIMITED, is served nothing from the cache and leaves  *)
(* the cache alone, whatever entry the cache holds; a call served from the *)
(* cache has been counted in the window of its endpoint.                   *)
C29_RateLimitBeforeCache ==
    [][\A p \in Procs :
        (proc[p].pc = "idle" /\ proc'[p].pc # "idle")
            => LET e == proc'[p].endpoint
                   open == e \in DOMAIN requestCounts /\ now <= requestCounts[e].resetTime
               IN  /\ (open /\ requestCounts[e].count >= 100)
                       => /\ proc'[p].pc = "done"
                          /\ proc'[p].outcome.kind = "rejected"
                          /\ proc'[p].outcome.error.code = "RATE_LIMITED"
                          /\ ~proc'[p].fromCache
                          /\ proc'[p].attempts = 0
                          /\ requestCache' = requestCache
                   /\ proc'[p].fromCache
                       => /\ e \in DOMAIN requestCounts'
                          /\ requestCounts'[e].count =
                                 IF open THEN requestCounts[e].count + 1 ELSE 1]_vars

(* C29 witness: a cacheable GET was refused by the rate limiter while the  *)
(* cache held a non-expired entry for its endpoint.                        *)
C29_Witness ==
    \E p \in Procs :
        /\ Done(p) /\ proc[p].method = "GET" /\ proc[p].cacheable
        /\ proc[p].entry.fresh /\ proc[p].entry.data = "{id:1}"
        /\ proc[p].endpoint \in DOMAIN requestCache
        /\ requestCache[proc[p].endpoint].expires > now
        /\ ~proc[p].fromCache
        /\ Out(p) = Rejected(ApiError(429, "RATE_LIMITED"))

====
